---- MODULE Spec2Model ----
(***************************************************************************)
(* DeutscherBot (src/main.py): a bot that scans the newest posts of a      *)
(* subreddit, looks the last word of each title up in the PONS dictionary, *)
(* replies with a formatted definition and records the post in a sqlite    *)
(* table so that it is not answered twice.                                 *)
(*                                                                         *)
(* Representation of Python values                                         *)
(*   str      a sequence of one-character strings, <<"a", " ", "b">>, in   *)
(*            every place where the code looks inside a string (split,     *)
(*            strip, replace, title, concatenation); a TLA+ string where   *)
(*            the code only passes the text on (reason messages, ids).     *)
(*            Literal text of the program that is only concatenated is     *)
(*            written as one longer piece, <<"PONS-reference">>; code      *)
(*            points outside ASCII are written "U+xxxx".                   *)
(*   None     <<>> where a value may be None, the value v being <<v>>.     *)
(*   dict     a function; its keys are its DOMAIN.                         *)
(*   return / raise    [raised, exc, value], see Return and Raise.         *)
(***************************************************************************)
EXTENDS Integers, Sequences, FiniteSets, TLC

VARIABLES
    ledger,       \* committed rows of table posts, in insertion order
    replies,      \* post id -> comments submitted with post.reply, in order
    interrupted,  \* post id -> runs that stopped between post.reply and commit
    feed,         \* the listing subreddit.new(limit=cant) of the current run
    idx,          \* position of the for loop of scan_posts in feed
    pc,           \* "idle" | "loop" | "replied": where scan_posts stands
    pending,      \* word_details of the post replied to, until add_to_db
    ended,        \* how the last run ended: "" | "done" | the exception |
                  \* "interrupted" (stopped between reply and commit) | "stopped"
    runs,         \* number of scan_posts runs started (the clock of the model)
    last,         \* what the last step of the loop did, for the post it handled,
                  \* and whether it sent a request to PONS (lookup)
    call          \* a single call of one function: [fn, arg, ret, done]

vars == <<ledger, replies, interrupted, feed, idx, pc, pending, ended, runs,
          last, call>>

botVars == <<ledger, replies, interrupted, feed, idx, pc, pending, ended, runs,
             last>>

----------------------------------------------------------------------------
(* Python values *)

None == <<>>

Some(v) == <<v>>

Return(v) == [raised |-> FALSE, exc |-> "", value |-> v]

Raise(e, msg) == [raised |-> TRUE, exc |-> e, value |-> msg]

\* dict.get(key): the value, or None when the key is missing
DictGet(d, k) == IF k \in DOMAIN d THEN Some(d[k]) ELSE None

----------------------------------------------------------------------------
(* Pons: the dictionary client, src/main.py:22-49 *)

STATUS_TO_REASON ==
    (Some(200) :> "Request successful")
    @@ (Some(204) :> "No results could be found for the given word")
    @@ (Some(404) :> "The dictionary does not exist")
    @@ (Some(403) :> "Supplied credentials could not be verified, or access to dictionary denied")
    @@ (Some(500) :> "A server error has occurred")
    @@ (None :> "Unknown error (sorry)")

\* Pons.search(word), given the response requests.get returned for the word
search(response) ==
    LET status == response.status_code
    IN  IF status = 200
        THEN IF Len(response.json) >= 1
             THEN Return(response.json[1])
             ELSE Raise("IndexError", None)
        ELSE LET error_msg == DictGet(STATUS_TO_REASON, Some(status))
             IN  Raise("SearchError", error_msg)

----------------------------------------------------------------------------
(* str methods used by the bot *)

\* the characters str.split() and str.strip() take as whitespace (those with
\* str.isspace()); a character with no escape is written as its code point
Whitespace ==
    {"\t", "\n", "U+000B", "\f", "\r", "U+001C", "U+001D", "U+001E", "U+001F",
     " ", "U+0085", "U+00A0", "U+1680", "U+2000", "U+2001", "U+2002", "U+2003",
     "U+2004", "U+2005", "U+2006", "U+2007", "U+2008", "U+2009", "U+200A",
     "U+2028", "U+2029", "U+202F", "U+205F", "U+3000"}

RECURSIVE SplitFrom(_, _, _, _)
SplitFrom(s, i, cur, out) ==
    IF i > Len(s)
    THEN IF cur = <<>> THEN out ELSE Append(out, cur)
    ELSE IF s[i] \in Whitespace
         THEN SplitFrom(s, i + 1, <<>>, IF cur = <<>> THEN out ELSE Append(out, cur))
         ELSE SplitFrom(s, i + 1, Append(cur, s[i]), out)

\* str.split(): the maximal runs of non-whitespace characters, in order
split(s) == SplitFrom(s, 1, <<>>, <<>>)

RECURSIVE lstrip(_)
lstrip(s) == IF s # <<>> /\ Head(s) \in Whitespace THEN lstrip(Tail(s)) ELSE s

RECURSIVE rstrip(_)
rstrip(s) ==
    IF s # <<>> /\ s[Len(s)] \in Whitespace
    THEN rstrip(SubSeq(s, 1, Len(s) - 1))
    ELSE s

\* str.strip()
strip(s) == rstrip(lstrip(s))

RECURSIVE replace(_, _, _)
\* str.replace(old, new) for a non-empty old: the occurrences of old, found
\* from the left and not overlapping, are replaced by new
replace(s, old, new) ==
    IF Len(s) < Len(old) THEN s
    ELSE IF SubSeq(s, 1, Len(old)) = old
         THEN new \o replace(SubSeq(s, Len(old) + 1, Len(s)), old, new)
         ELSE <<Head(s)>> \o replace(Tail(s), old, new)

\* The case tables hold the ASCII letters and the letters of German,
\* U+00E4/U+00C4 (a umlaut), U+00F6/U+00D6 (o umlaut), U+00FC/U+00DC (u umlaut)
\* and U+00DF (sharp s); the strings of the model are written with these
\* letters and with characters that have no case.
Lower == <<"a", "b", "c", "d", "e", "f", "g", "h", "i", "j", "k", "l", "m",
           "n", "o", "p", "q", "r", "s", "t", "u", "v", "w", "x", "y", "z",
           "U+00E4", "U+00F6", "U+00FC">>

Upper == <<"A", "B", "C", "D", "E", "F", "G", "H", "I", "J", "K", "L", "M",
           "N", "O", "P", "Q", "R", "S", "T", "U", "V", "W", "X", "Y", "Z",
           "U+00C4", "U+00D6", "U+00DC">>

\* the sharp s: lower case, with the title case Ss
SHARP_S == "U+00DF"

IsCased(c) == c = SHARP_S \/ \E i \in 1..Len(Lower) : c = Lower[i] \/ c = Upper[i]

\* the title case of a character, as a string
ToTitle(c) ==
    IF c = SHARP_S THEN <<"S", "s">>
    ELSE IF \E i \in 1..Len(Lower) : c = Lower[i]
         THEN <<Upper[CHOOSE i \in 1..Len(Lower) : c = Lower[i]]>>
         ELSE <<c>>

\* the lower case of a character, as a string
ToLower(c) ==
    IF \E i \in 1..Len(Upper) : c = Upper[i]
    THEN <<Lower[CHOOSE i \in 1..Len(Upper) : c = Upper[i]]>>
    ELSE <<c>>

RECURSIVE TitleFrom(_, _)
\* the loop of str.title() over the characters, previous_is_cased so far
TitleFrom(s, previous_is_cased) ==
    IF s = <<>> THEN <<>>
    ELSE (IF previous_is_cased THEN ToLower(Head(s)) ELSE ToTitle(Head(s)))
         \o TitleFrom(Tail(s), IsCased(Head(s)))

\* str.title(): a cased character is in title case after an uncased one (or
\* at the start) and in lower case after a cased one
title(s) == TitleFrom(s, FALSE)

----------------------------------------------------------------------------
(* Markup. The dictionary sends text with embedded html. The model takes   *)
(* the markup as the node sequence the html parser reads from it: text     *)
(* runs, elements (class attribute, child nodes) and comments.             *)

TextNode(s) == [kind |-> "text", text |-> s, class |-> None, children |-> <<>>]

ElemNode(c, ch) == [kind |-> "elem", text |-> <<>>, class |-> c, children |-> ch]

CommentNode(s) == [kind |-> "comment", text |-> s, class |-> None, children |-> <<>>]

RECURSIVE FlatText(_)
\* the text nodes below a node sequence, concatenated in document order
FlatText(nodes) ==
    IF nodes = <<>> THEN <<>>
    ELSE LET n == Head(nodes)
         IN  (CASE n.kind = "text" -> n.text
                [] n.kind = "elem" -> FlatText(n.children)
                [] OTHER -> <<>>) \o FlatText(Tail(nodes))

\* the length of the run of text nodes that starts the node sequence
RECURSIVE TextRun(_)
TextRun(nodes) ==
    IF nodes # <<>> /\ Head(nodes).kind = "text"
    THEN 1 + TextRun(Tail(nodes))
    ELSE 0

RECURSIVE Children(_)
\* list(body): the element and comment children, each carrying as its tail
\* the text that follows it up to the next child
Children(nodes) ==
    IF nodes = <<>> THEN <<>>
    ELSE LET n == Head(nodes)
             k == TextRun(Tail(nodes))
             tail == FlatText(SubSeq(Tail(nodes), 1, k))
             rest == SubSeq(Tail(nodes), k + 1, Len(Tail(nodes)))
         IN  <<[kind |-> n.kind, text |-> n.text, class |-> n.class,
                children |-> n.children, tail |-> tail]>> \o Children(rest)

\* lxml.html.fragments_fromstring(astr): the leading text, when it is not
\* blank, as a str, then the children of the body
fragments_fromstring(nodes) ==
    LET k == TextRun(nodes)
        bodytext == FlatText(SubSeq(nodes, 1, k))
        lead == IF strip(bodytext) # <<>>
                THEN <<[kind |-> "str", text |-> bodytext, class |-> None,
                        children |-> <<>>, tail |-> <<>>]>>
                ELSE <<>>
    IN  lead \o Children(SubSeq(nodes, k + 1, Len(nodes)))

\* elem.text_content(): the text below the element, without its tail
text_content(elem) ==
    IF elem.kind = "comment" THEN elem.text ELSE FlatText(elem.children)

\* DeutscherBot.italics
italics(astr) == <<"*">> \o astr \o <<"*">>

\* DeutscherBot.parenthesis
parenthesis(astr) == <<"(">> \o astr \o <<")">>

\* DeutscherBot.bold
bold(astr) == <<"*", "*">> \o astr \o <<"*", "*">>

\* DeutscherBot.script
script(astr) == <<"^">> \o astr

\* DeutscherBot.format_link
format_link(visible_name, url) ==
    <<"[">> \o visible_name \o <<"]", "(">> \o url \o <<")">>

RECURSIVE TextFrom(_, _)
\* the loop of get_text_from_irregular_string over string_pieces, text so far
TextFrom(pieces, text) ==
    IF pieces = <<>> THEN Return(text)
    ELSE LET elem == Head(pieces)
         IN  CASE elem.kind = "str" -> TextFrom(Tail(pieces), text \o elem.text)
               [] elem.kind = "elem" ->
                    TextFrom(Tail(pieces),
                             text \o parenthesis(italics(text_content(elem))))
               [] OTHER -> Raise("CouldNotGetText", None)

\* DeutscherBot.get_text_from_irregular_string(astr)
get_text_from_irregular_string(astr) ==
    TextFrom(fragments_fromstring(astr), <<>>)

RECURSIVE MetadataFrom_last_wins(_, _)
\* A slip: the guard "if key not in metadata" is missing, the last write wins.
MetadataFrom_last_wins(html_elem, metadata) ==
    IF html_elem = <<>> THEN metadata
    ELSE MetadataFrom_last_wins(Tail(html_elem),
                                (Head(html_elem).class :> text_content(Head(html_elem)))
                                @@ metadata)

RECURSIVE MetadataFrom(_, _)
\* the loop of get_word_metadata over html_elem, metadata so far
MetadataFrom(html_elem, metadata) ==
    IF html_elem = <<>> THEN metadata
    ELSE LET elem == Head(html_elem)
             key == elem.class
         IN  MetadataFrom(Tail(html_elem),
                          IF key \notin DOMAIN metadata
                          THEN metadata @@ (key :> text_content(elem))
                          ELSE metadata)

\* the empty dict
EmptyDict == [k \in {} |-> <<>>]

\* DeutscherBot.get_word_metadata(fullword)
get_word_metadata(fullword) ==
    LET frags == fragments_fromstring(fullword)
        html_elem == SubSeq(frags, 2, Len(frags))
    IN  MetadataFrom(html_elem, EmptyDict)

RECURSIVE SubTags(_)
\* re.sub('<[^>]*>', '', astr) on the characters of astr: from the left, a
\* "<" and everything up to the first ">" after it are deleted; a "<" with no
\* ">" after it stays
SubTags(astr) ==
    IF astr = <<>> THEN <<>>
    ELSE IF Head(astr) = "<" /\ \E j \in 2..Len(astr) : astr[j] = ">"
         THEN SubTags(SubSeq(astr,
                             1 + (CHOOSE j \in 2..Len(astr) :
                                    /\ astr[j] = ">"
                                    /\ \A k \in 2..(j - 1) : astr[k] # ">"),
                             Len(astr)))
         ELSE <<Head(astr)>> \o SubTags(Tail(astr))

\* DeutscherBot.get_target_text(astr), astr the characters of the string
get_target_text(astr) == SubTags(astr)

\* A slip: the first word of the title is taken.
_get_word_to_search_first(post_title) ==
    IF split(post_title) = <<>>
    THEN Raise("IndexError", None)
    ELSE Return(strip(split(post_title)[1]))

\* DeutscherBot._get_word_to_search(post), from post.title
_get_word_to_search(post_title) ==
    LET words == split(post_title)
    IN  IF words = <<>>
        THEN Raise("IndexError", None)
        ELSE Return(strip(words[Len(words)]))

----------------------------------------------------------------------------
(* DeutscherBot.search_word and DeutscherBot.prepare_comment *)

NOUN == <<"n", "o", "u", "n">>

\* the literal of line 120 as the file holds it: the two characters U+00AC
\* (not sign) and U+2211 (n-ary summation), not the middle dot U+00B7
SYLLABLE_SEPARATOR == <<"U+00AC", "U+2211">>

PHRASES_HEADER == <<"Phrases:">>

\* get_example once the source text is extracted: the pair (source, target)
ExampleOf(source, target) ==
    IF source.raised THEN source ELSE Return(Some(<<source.value, target>>))

\* DeutscherBot.get_example(adefinition)
get_example(adefinition) ==
    LET phrase == SelectSeq(adefinition.arabs,
                            LAMBDA entry : entry.header = PHRASES_HEADER)
    IN  IF phrase # <<>>
        THEN IF phrase[1].translations = <<>> THEN Raise("IndexError", None)
             ELSE ExampleOf(
                    get_text_from_irregular_string(phrase[1].translations[1].source),
                    get_target_text(phrase[1].translations[1].target.raw))
        ELSE Return(None)

\* search_result['word'] = definition['headword'].replace(separator, '')
SetWord(definition) ==
    "word" :> replace(definition.headword, SYLLABLE_SEPARATOR, <<>>)

\* if wordclass: search_result['word_type'] = wordclass
SetWordType(search_result, wordclass) ==
    IF wordclass # None /\ wordclass[1] # <<>>
    THEN search_result @@ ("word_type" :> wordclass[1])
    ELSE search_result

\* search_result['metadata'] = word_metadata
SetMetadata(search_result, word_metadata) ==
    search_result @@ ("metadata" :> word_metadata)

\* gender = word_metadata['genus'] if wordclass == 'noun' else None
\* if gender: search_result['gender'] = gender
SetGender(search_result, wordclass) ==
    IF wordclass = Some(NOUN)
    THEN IF Some("genus") \notin DOMAIN search_result["metadata"]
         THEN Raise("KeyError", Some("genus"))
         ELSE IF search_result["metadata"][Some("genus")] # <<>>
              THEN Return(search_result
                          @@ ("gender" :> search_result["metadata"][Some("genus")]))
              ELSE Return(search_result)
    ELSE Return(search_result)

\* definition['arabs'][0]['translations'][0]
FirstTranslation(definition) ==
    IF definition.arabs = <<>> THEN Raise("IndexError", None)
    ELSE IF definition.arabs[1].translations = <<>> THEN Raise("IndexError", None)
    ELSE Return(definition.arabs[1].translations[1])

\* search_result['translation'] = the text extracted from translation['target']
SetTranslationText(search_result, text) ==
    IF text.raised THEN text
    ELSE Return(search_result @@ ("translation" :> text.value))

SetTranslation(result, translation) ==
    IF result.raised THEN result
    ELSE IF translation.raised THEN translation
    ELSE SetTranslationText(result.value,
                            get_text_from_irregular_string(translation.value.target.nodes))

\* if example: search_result['example'] = example
SetExample(result, example) ==
    IF result.raised THEN result
    ELSE IF example.raised THEN example
    ELSE IF example.value # None
         THEN Return(result.value @@ ("example" :> example.value[1]))
         ELSE Return(result.value)

\* search_word from "Get result word" on, for the definition roms[0]
DetailsOf(definition) ==
    SetExample(
        SetTranslation(
            SetGender(
                SetMetadata(SetWordType(SetWord(definition), definition.wordclass),
                            get_word_metadata(definition.headword_full)),
                definition.wordclass),
            FirstTranslation(definition)),
        get_example(definition))

\* search_word after self.pons.search(s_word) returned or raised
SearchWordFrom(found) ==
    IF found.raised
    THEN IF found.exc = "SearchError"
         THEN Raise("DeutscherBotException", None)
         ELSE found
    ELSE IF found.value.hits = <<>> THEN Raise("IndexError", None)
    ELSE IF found.value.hits[1].type = "entry"
         THEN IF found.value.hits[1].roms = <<>> THEN Raise("IndexError", None)
              ELSE DetailsOf(found.value.hits[1].roms[1])
         ELSE Raise("TranslationException",
                    Some("Translations are not yet supported"))

\* DeutscherBot.search_word(s_word), given the response to the request for it
search_word(response) == SearchWordFrom(search(response))

LETTER_TO_ARTICLE_MAPPER ==
    (<<"n", "t">> :> <<"d", "a", "s">>)
    @@ (<<"m">> :> <<"d", "e", "r">>)
    @@ (<<"f">> :> <<"d", "i", "e">>)

BREAK_LINE == <<"\n", "\n">>

BLANK_LINE == BREAK_LINE \o <<"&nbsp;">> \o BREAK_LINE

\* Pons.SEARCH_URL.format(word=word)
SEARCH_URL(word) ==
    <<"https://en.pons.com/translate?q=">> \o word
    \o <<"&l=deen&in=de&language=en">>

\* DeutscherBot.COMMENT_TEMPLATE.format(...); the three runs of non-ASCII
\* characters of line 58 are pieces named by the code points the file holds
COMMENT_TEMPLATE(article_and_word, phonetics, word_type, word, translation, source_link) ==
    article_and_word \o <<" ">> \o phonetics \o <<" ", "|", " ">> \o word_type
    \o BLANK_LINE
    \o <<"U+F8FFU+00FCU+00E1U+00A9U+F8FFU+00FCU+00E1U+2122", " ">> \o word
    \o <<" ", "U+F8FFU+00FCU+00EEU+00C5", " ">>
    \o <<"U+F8FFU+00FCU+00E1U+00A8U+F8FFU+00FCU+00E1U+00DF", " ">>
    \o translation \o BLANK_LINE
    \o source_link

\* the article prepare_comment resolves for a word_result
ArticleOf(word_result) ==
    LET gender == IF "gender" \in DOMAIN word_result
                  THEN word_result["gender"] ELSE <<>>
    IN  IF gender \in DOMAIN LETTER_TO_ARTICLE_MAPPER
        THEN LETTER_TO_ARTICLE_MAPPER[gender]
        ELSE <<>>

\* A slip: the article and the space are joined to the word unconditionally.
WordWithArticle_always(article, word) == article \o <<" ">> \o word

\* article+' '+word if article else word
WordWithArticle(article, word) ==
    IF article # <<>> THEN article \o <<" ">> \o word ELSE word

\* DeutscherBot.prepare_comment(word_result)
prepare_comment(word_result) ==
    LET article == ArticleOf(word_result)
        word == word_result["word"]
        word_w_article == WordWithArticle(article, word)
    IN  IF "word_type" \notin DOMAIN word_result
        THEN Raise("AttributeError", None)
        ELSE
        LET word_type == title(word_result["word_type"])
            phonetics == IF Some("phonetics") \in DOMAIN word_result["metadata"]
                         THEN word_result["metadata"][Some("phonetics")]
                         ELSE <<>>
        IN  IF "translation" \notin DOMAIN word_result
            THEN Raise("KeyError", Some("translation"))
            ELSE
            LET translation == word_result["translation"]
                source == script(format_link(<<"PONS-reference">>, SEARCH_URL(word)))
            IN  Return(COMMENT_TEMPLATE(bold(word_w_article), phonetics,
                                        italics(word_type), word, translation,
                                        source))

----------------------------------------------------------------------------
(* The ledger: table posts of posts2.db *)

\* A slip in the query: only the first row of the table is compared.
visited_db_first_row(rows, post) ==
    rows # <<>> /\ rows[1].post_id = post.id

\* DeutscherBot.visited_db(post): the SELECT returns every row of the table
\* when some row has the post's id and no row otherwise; fetchone() is the
\* first of them or None
visited_db(rows, post) ==
    LET selected == IF \E i \in 1..Len(rows) : rows[i].post_id = post.id
                    THEN rows ELSE <<>>
        fetchone == IF selected = <<>> THEN None ELSE Some(selected[1])
    IN  fetchone # None

\* A slip in the statement: the new row replaces the table's rows.
add_to_db_replace(rows, post, word_details, now, subreddit) ==
    <<[post_id |-> post.id, link |-> post.url,
       word |-> word_details["word"],
       translation |-> word_details["translation"],
       raw_result |-> word_details,
       date |-> now, subreddit |-> subreddit]>>

\* A slip: the INSERT is never committed, the row is lost.
add_to_db_no_commit(rows, post, word_details, now, subreddit) == rows

\* DeutscherBot.add_to_db(post, word_details): the table after INSERT and commit
add_to_db(rows, post, word_details, now, subreddit) ==
    Append(rows, [post_id |-> post.id, link |-> post.url,
                  word |-> word_details["word"],
                  translation |-> word_details["translation"],
                  raw_result |-> word_details,
                  date |-> now, subreddit |-> subreddit])

----------------------------------------------------------------------------
(* The environment: the posts of the subreddit and the answers of PONS *)

MaxRuns == 3

MaxFeed == 2

SUBREDDIT == "Sprache"

Posts ==
    { [id |-> "p1", url |-> "u1", title |-> <<"W", ":", " ", "a", "b">>],
      [id |-> "p2", url |-> "u2", title |-> <<" ", "c", "\n">>] }

PostIds == {p.id : p \in Posts}

RECURSIVE SeqsUpTo(_, _)
\* the sequences over S of length at most n
SeqsUpTo(S, n) ==
    IF n = 0 THEN {<<>>}
    ELSE LET shorter == SeqsUpTo(S, n - 1)
         IN  shorter \cup {Append(q, x) : q \in shorter, x \in S}

\* what subreddit.new(limit=cant) may list
Feeds == SeqsUpTo(Posts, MaxFeed)

\* a string of markup that is read both by the html parser and as characters:
\* the characters PONS sent and the node sequence the parser reads from them
Markup(raw, nodes) == [raw |-> raw, nodes |-> nodes]

\* a translation: source as node sequence, target as Markup
Translation(source, target) == [source |-> source, target |-> target]

Arab(header, translations) == [header |-> header, translations |-> translations]

Definition(headword, wordclass, headword_full, arabs) ==
    [headword |-> headword, wordclass |-> wordclass,
     headword_full |-> headword_full, arabs |-> arabs]

Hit(type, roms) == [type |-> type, roms |-> roms]

Response(status, json) == [status_code |-> status, json |-> json]

\* h<span class="info">pl</span>
HouseTarget ==
    Markup(<<"h", "<", "s", "p", "a", "n", " ", "c", "l", "a", "s", "s", "=", "\"", "i", "n", "f", "o", "\"", ">", "p", "l", "<", "/", "s", "p", "a", "n", ">">>,
           <<TextNode(<<"h">>), ElemNode(Some("info"), <<TextNode(<<"p", "l">>)>>)>>)

\* <i>x</i> &amp; y
PhraseTarget ==
    Markup(<<"<", "i", ">", "x", "<", "/", "i", ">", " ", "&", "a", "m", "p", ";", " ", "y">>,
           <<ElemNode(None, <<TextNode(<<"x">>)>>), TextNode(<<" ", "&", " ", "y">>)>>)

\* h<!--x-->
CommentTarget ==
    Markup(<<"h", "<", "!", "-", "-", "x", "-", "-", ">">>,
           <<TextNode(<<"h">>), CommentNode(<<"x">>)>>)

PlainArabs == <<Arab(<<>>, <<Translation(<<TextNode(<<"a", "b">>)>>, HouseTarget)>>)>>

PhraseArabs ==
    PlainArabs
    \o <<Arab(PHRASES_HEADER,
              <<Translation(<<TextNode(<<"a">>), ElemNode(None, <<TextNode(<<"b">>)>>)>>,
                            PhraseTarget)>>)>>

NounFull(genus) ==
    <<TextNode(<<"a", "b">>),
      ElemNode(Some("phonetics"), <<TextNode(<<"[", "a", "]">>)>>),
      ElemNode(Some("genus"), <<TextNode(genus)>>)>>

NounDefinition(genus) ==
    Definition(<<"a">> \o SYLLABLE_SEPARATOR \o <<"b">>, Some(NOUN), NounFull(genus),
               PhraseArabs)

\* a verb whose headword holds the middle dot U+00B7
VerbDefinition ==
    Definition(<<"c", "U+00B7", "d">>, Some(<<"v", "e", "r", "b">>),
               <<TextNode(<<"c">>), ElemNode(Some("phonetics"), <<TextNode(<<"[", "c", "]">>)>>)>>,
               PlainArabs)

\* a noun whose headword block names no genus
BareNounDefinition ==
    Definition(<<"a", "b">>, Some(NOUN), <<TextNode(<<"a", "b">>)>>, PlainArabs)

\* a definition whose translation holds a comment
CommentDefinition ==
    Definition(<<"c">>, Some(<<"v", "e", "r", "b">>), <<TextNode(<<"c">>)>>,
               <<Arab(<<>>, <<Translation(<<>>, CommentTarget)>>)>>)

Entry(definition) == <<[hits |-> <<Hit("entry", <<definition>>)>>]>>

OkResponses ==
    { Response(200, Entry(NounDefinition(<<"n", "t">>))),
      Response(200, Entry(VerbDefinition)) }

FailedResponses ==
    { Response(204, <<>>),
      Response(401, <<>>),
      Response(200, <<[hits |-> <<Hit("translation", <<>>)>>]>>),
      Response(200, Entry(CommentDefinition)),
      Response(200, Entry(BareNounDefinition)) }

\* what requests.get may answer to the request of one post
Responses == OkResponses \cup FailedResponses

----------------------------------------------------------------------------
(* DeutscherBot.scan_posts, one step per post of the feed; the step of an  *)
(* unvisited post ends with post.reply, and add_to_db is a step of its own *)
(* because the process can stop between the two.                           *)

NoStep ==
    [post |-> "", what |-> "none", exc |-> "", at |-> 0, comment |-> <<>>,
     lookup |-> FALSE]

NoCall == [fn |-> "", arg |-> <<>>, ret |-> <<>>, done |-> FALSE]

\* the word_details and the comment of a post, or the exception raised
CommentFor(word_details, definition) ==
    IF definition.raised THEN definition
    ELSE Return([word_details |-> word_details, definition |-> definition.value])

PrepareFrom(word, word_details) ==
    IF word.raised THEN word
    ELSE IF word_details.raised THEN word_details
    ELSE CommentFor(word_details.value, prepare_comment(word_details.value))

\* the body of the loop up to prepare_comment, for a post and the answer of
\* PONS to the request for its word
Prepare(post, response) ==
    PrepareFrom(_get_word_to_search(post.title), search_word(response))

InitBot ==
    /\ ledger = <<>>
    /\ replies = [p \in PostIds |-> 0]
    /\ interrupted = [p \in PostIds |-> 0]
    /\ feed = <<>>
    /\ idx = 0
    /\ pc = "idle"
    /\ pending = <<>>
    /\ ended = ""
    /\ runs = 0
    /\ last = NoStep

Init == InitBot /\ call = NoCall

\* scan_posts is called: the listing is fetched
StartRun ==
    /\ pc = "idle"
    /\ runs < MaxRuns
    /\ \E f \in Feeds : feed' = f
    /\ idx' = 1
    /\ pc' = "loop"
    /\ runs' = runs + 1
    /\ ended' = ""
    /\ last' = NoStep
    /\ UNCHANGED <<ledger, replies, interrupted, pending, call>>

\* A slip: the lookup and the reply stand outside the if, a visited post is
\* answered again.
SkipVisited_replies ==
    /\ pc = "loop"
    /\ idx <= Len(feed)
    /\ visited_db(ledger, feed[idx])
    /\ last' = [post |-> feed[idx].id, what |-> "skipped", exc |-> "", at |-> idx,
                comment |-> <<>>, lookup |-> TRUE]
    /\ replies' = [replies EXCEPT ![feed[idx].id] = @ + 1]
    /\ idx' = idx + 1
    /\ UNCHANGED <<ledger, interrupted, feed, pc, pending, ended, runs, call>>

\* the else branch: the post is in the ledger
SkipVisited ==
    /\ pc = "loop"
    /\ idx <= Len(feed)
    /\ visited_db(ledger, feed[idx])
    /\ last' = [post |-> feed[idx].id, what |-> "skipped", exc |-> "", at |-> idx,
                comment |-> <<>>, lookup |-> FALSE]
    /\ idx' = idx + 1
    /\ UNCHANGED <<ledger, replies, interrupted, feed, pc, pending, ended, runs, call>>

\* post.reply(definition) for the prepared comment
Replied(r) ==
    /\ ~r.raised
    /\ replies' = [replies EXCEPT ![feed[idx].id] = @ + 1]
    /\ pending' = r.value.word_details
    /\ last' = [post |-> feed[idx].id, what |-> "replied", exc |-> "",
                at |-> idx, comment |-> r.value.definition, lookup |-> TRUE]

\* the if branch up to post.reply(definition)
Reply ==
    /\ pc = "loop"
    /\ idx <= Len(feed)
    /\ ~visited_db(ledger, feed[idx])
    /\ \E response \in Responses : Replied(Prepare(feed[idx], response))
    /\ pc' = "replied"
    /\ UNCHANGED <<ledger, interrupted, feed, idx, ended, runs, call>>

\* A slip: the reply is posted before the lookup is known to have worked.
Failed_after_reply(r) ==
    /\ r.raised
    /\ ended' = r.exc
    /\ replies' = [replies EXCEPT ![feed[idx].id] = @ + 1]
    /\ last' = [post |-> feed[idx].id, what |-> "failed", exc |-> r.exc,
                at |-> idx, comment |-> <<>>,
                lookup |-> ~_get_word_to_search(feed[idx].title).raised]

\* the exception leaves scan_posts; no reply was sent
Failed(r) ==
    /\ r.raised
    /\ ended' = r.exc
    /\ replies' = replies
    /\ last' = [post |-> feed[idx].id, what |-> "failed", exc |-> r.exc,
                at |-> idx, comment |-> <<>>,
                lookup |-> ~_get_word_to_search(feed[idx].title).raised]

\* the if branch raises before post.reply: nothing in scan_posts catches it
FailBeforeReply ==
    /\ pc = "loop"
    /\ idx <= Len(feed)
    /\ ~visited_db(ledger, feed[idx])
    /\ \E response \in Responses : Failed(Prepare(feed[idx], response))
    /\ pc' = "idle"
    /\ UNCHANGED <<ledger, interrupted, feed, idx, pending, runs, call>>

\* post.reply(definition) raises: no comment was added to the post
ReplyRaised(r) ==
    /\ ~r.raised
    /\ ended' = "APIException"
    /\ replies' = replies
    /\ last' = [post |-> feed[idx].id, what |-> "failed", exc |-> "APIException",
                at |-> idx, comment |-> <<>>, lookup |-> TRUE]

\* the if branch reaches post.reply, and post.reply raises: nothing in
\* scan_posts catches it
ReplyFails ==
    /\ pc = "loop"
    /\ idx <= Len(feed)
    /\ ~visited_db(ledger, feed[idx])
    /\ \E response \in Responses : ReplyRaised(Prepare(feed[idx], response))
    /\ pc' = "idle"
    /\ UNCHANGED <<ledger, interrupted, feed, idx, pending, runs, call>>

\* add_to_db(post, word_details) after the reply, then the next post
AddToDb ==
    /\ pc = "replied"
    /\ ledger' = add_to_db(ledger, feed[idx], pending, runs, SUBREDDIT)
    /\ pending' = <<>>
    /\ idx' = idx + 1
    /\ pc' = "loop"
    /\ UNCHANGED <<replies, interrupted, feed, ended, runs, last, call>>

\* the process stops. After post.reply and before the commit (it is killed,
\* or the INSERT or the commit raises) the uncommitted row is lost; anywhere
\* else in the loop (it is killed in time.sleep, or before the reply) nothing
\* is under way
Interrupt ==
    /\ pc \in {"loop", "replied"}
    /\ interrupted' = IF pc = "replied"
                      THEN [interrupted EXCEPT ![feed[idx].id] = @ + 1]
                      ELSE interrupted
    /\ pending' = <<>>
    /\ pc' = "idle"
    /\ ended' = IF pc = "replied" THEN "interrupted" ELSE "stopped"
    /\ UNCHANGED <<ledger, replies, feed, idx, runs, last, call>>

\* the listing is exhausted: "My job has ended"
EndRun ==
    /\ pc = "loop"
    /\ idx > Len(feed)
    /\ pc' = "idle"
    /\ ended' = "done"
    /\ UNCHANGED <<ledger, replies, interrupted, feed, idx, pending, runs, last, call>>

Next ==
    \/ StartRun
    \/ SkipVisited
    \/ Reply
    \/ FailBeforeReply
    \/ ReplyFails
    \/ AddToDb
    \/ Interrupt
    \/ EndRun

Spec == Init /\ [][Next]_vars

----------------------------------------------------------------------------
(* Properties of scan_posts and the ledger *)

\* the ledger rows of a post id
RowsOf(p) == SelectSeq(ledger, LAMBDA row : row.post_id = p)

InLedger(p) == RowsOf(p) # <<>>

\* the post the loop stands at
AtPost(p) == pc \in {"loop", "replied"} /\ idx <= Len(feed) /\ feed[idx].id = p

\* the failures the dictionary and the markup cause
LookupFailures == {"DeutscherBotException", "TranslationException", "CouldNotGetText"}

\* C1 as stated: over any sequence of scan_posts runs no post receives more
\* than one reply.
C1_AtMostOneReply == \A p \in PostIds : replies[p] <= 1

\* C1: visited_db(P) is true exactly when a ledger row has post_id = P; once
\* such a row exists no further reply is sent to P; and P has received at most
\* one reply more than the number of runs that stopped between the reply to P
\* and the commit of its row.
C1_AtMostOnceWhenCommitted ==
    /\ [](\A post \in Posts :
            visited_db(ledger, post) <=> \E i \in 1..Len(ledger) : ledger[i].post_id = post.id)
    /\ [](\A p \in PostIds : replies[p] <= 1 + interrupted[p])
    /\ [][\A p \in PostIds : InLedger(p) => replies'[p] = replies[p]]_vars

\* C1 witness: a run meets again a post that is in the ledger, behind the row
\* of another post, and has skipped it.
C1_Witness ==
    /\ Len(ledger) = 2
    /\ last.what = "skipped"
    /\ last.post = ledger[2].post_id
    /\ replies[last.post] = 1
    /\ runs >= 2

\* C2 as stated: after a lookup failure, an unsupported result kind or a text
\* extraction failure on a post, the run is still in its loop, at the next
\* post of the feed.
C2_FailureAdvances ==
    (last.what = "failed" /\ last.exc \in LookupFailures)
        => (pc = "loop" /\ idx = last.at + 1)

\* C3: a step that fails before the reply (non-200 status, first hit not an
\* entry, markup extraction raising, or any other exception of the lookup),
\* or in which post.reply itself raises, leaves the ledger and the replies of
\* every post as they were.
C3_FailureWritesNothing ==
    [][(pc = "loop" /\ last'.what = "failed" /\ pc' = "idle")
        => (ledger' = ledger /\ replies' = replies)]_vars

\* C3 witness: an unsupported result kind has ended a run at a post without
\* replies, after the ledger had received the row of another post.
C3_Witness ==
    /\ last.what = "failed"
    /\ last.exc = "TranslationException"
    /\ ledger # <<>>
    /\ replies[last.post] = 0

\* C9: the ledger holds at most one row per post id, every row belongs to a
\* post that has been replied to, and every step keeps the existing rows as
\* they are, adding rows only at the end.
C9_LedgerAppendOnly ==
    /\ [](\A p \in PostIds : Len(RowsOf(p)) <= 1)
    /\ [](\A i \in 1..Len(ledger) : replies[ledger[i].post_id] >= 1)
    /\ [][/\ Len(ledger') >= Len(ledger)
          /\ SubSeq(ledger', 1, Len(ledger)) = ledger
          /\ (ledger' # ledger => (pc = "replied" /\ replies[feed[idx].id] >= 1))]_vars

\* C9 witness: two rows, of two posts, the second written in a later run.
C9_Witness ==
    /\ Len(ledger) = 2
    /\ ledger[1].post_id # ledger[2].post_id
    /\ ledger[1].date < ledger[2].date

\* C10 as stated: the run that next meets a post that has a reply and no
\* ledger row sends a second reply to it.
C10_SecondReplyAlways ==
    [][\A p \in PostIds :
        (pc = "loop" /\ AtPost(p) /\ replies[p] >= 1 /\ ~InLedger(p))
            => (replies'[p] = replies[p] + 1)]_vars

\* C10: a run that stops between the reply and the commit leaves the post with
\* a reply and no ledger row; a run that next meets the post does not skip it
\* but processes it again, and sends one more reply unless the lookup, the
\* formatting or post.reply of that run raises or the process is stopped
\* first; a post has two replies only after a stop between reply and commit.
C10_DuplicateOnlyAfterInterrupt ==
    /\ [][\A p \in PostIds :
            (pc = "replied" /\ AtPost(p) /\ pc' = "idle")
                => (replies'[p] >= 1 /\ ~InLedger(p)' /\ interrupted'[p] = interrupted[p] + 1)]_vars
    /\ [][\A p \in PostIds :
            (pc = "loop" /\ AtPost(p) /\ replies[p] >= 1 /\ ~InLedger(p))
                => \/ (replies'[p] = replies[p] + 1 /\ pc' = "replied")
                   \/ (replies'[p] = replies[p] /\ pc' = "idle" /\ last'.what = "failed")
                   \/ (replies'[p] = replies[p] /\ pc' = "idle" /\ ended' = "stopped")]_vars
    /\ [](\A p \in PostIds :
            (pc = "loop" /\ AtPost(p) /\ replies[p] >= 1 /\ ~InLedger(p))
                => ~visited_db(ledger, feed[idx]))
    /\ [](\A p \in PostIds : replies[p] >= 2 => interrupted[p] >= 1)

\* C10 witness: a post with two replies, the first from a run that stopped
\* before the commit.
C10_Witness ==
    \E p \in PostIds : replies[p] = 2 /\ interrupted[p] = 1 /\ InLedger(p)

\* C11: a step of scan_posts at a post for which visited_db returns true
\* sends no request to the dictionary, sends no reply and writes no ledger
\* row: the ledger and the replies of every post stay as they are, and the
\* loop stands at the next post of the same feed. The one other step from
\* such a state is the process being stopped, which changes neither the
\* ledger nor the replies.
C11_SkipChangesNothing ==
    [][(pc = "loop" /\ idx <= Len(feed) /\ visited_db(ledger, feed[idx]))
        => /\ ledger' = ledger
           /\ replies' = replies
           /\ feed' = feed
           /\ \/ /\ pending' = pending
                 /\ last'.what = "skipped"
                 /\ last'.post = feed[idx].id
                 /\ ~last'.lookup
                 /\ pc' = "loop"
                 /\ idx' = idx + 1
              \/ /\ pc' = "idle"
                 /\ ended' = "stopped"
                 /\ last' = last]_vars

\* C11 witness: the first post of a feed was skipped as visited and the loop
\* stands at the second post, which is not in the ledger.
C11_Witness ==
    /\ pc = "loop"
    /\ last.what = "skipped"
    /\ last.at = 1
    /\ idx = 2
    /\ Len(feed) = 2
    /\ InLedger(feed[1].id)
    /\ ~InLedger(feed[2].id)

----------------------------------------------------------------------------
(* Single calls of the functions of the bot, on inputs drawn from bounded  *)
(* sets: call.arg is the input, call.ret what the function returned or     *)
(* raised.                                                                 *)

Call(fn, arg) == [fn |-> fn, arg |-> arg, ret |-> <<>>, done |-> FALSE]

Done(fn) == call.fn = fn /\ call.done

MinStatus == 100

MaxStatus == 599

\* the status codes requests.get may report
Statuses == MinStatus..MaxStatus

Bodies == {<<>>, Entry(VerbDefinition)}

InitSearch ==
    /\ InitBot
    /\ call \in {Call("search", Response(st, body)) : st \in Statuses, body \in Bodies}

CallSearch ==
    /\ call.fn = "search"
    /\ ~call.done
    /\ call' = [call EXCEPT !.ret = search(call.arg), !.done = TRUE]
    /\ UNCHANGED botVars

SpecSearch == InitSearch /\ [][CallSearch]_vars

\* the reason the table of the error design gives for a status
ReasonFor(status) ==
    CASE status = 204 -> "No results could be found for the given word"
      [] status = 403 -> "Supplied credentials could not be verified, or access to dictionary denied"
      [] status = 404 -> "The dictionary does not exist"
      [] status = 500 -> "A server error has occurred"
      [] OTHER -> "Unknown error (sorry)"

\* C4 as stated: Pons.search returns only for status 200, and for every other
\* status raises SearchError with the reason of the table, "Unknown error
\* (sorry)" for a status the table does not list; the reason is never missing.
C4_ReasonForEveryStatus ==
    Done("search") =>
        IF call.arg.status_code = 200
        THEN call.ret.raised \/ call.ret.value = call.arg.json[1]
        ELSE /\ call.ret.raised
             /\ call.ret.exc = "SearchError"
             /\ call.ret.value # None
             /\ call.ret.value = Some(ReasonFor(call.arg.status_code))

----------------------------------------------------------------------------
(* Markup for the calls of the normalizer *)

MaxNodes == 3

NestedElem ==
    ElemNode(Some("x"),
             <<TextNode(<<"c">>), ElemNode(Some("y"), <<TextNode(<<"d">>)>>),
               TextNode(<<"e">>)>>)

MarkupNodes ==
    { TextNode(<<"a">>), TextNode(<<" ">>),
      ElemNode(Some("x"), <<TextNode(<<"b">>)>>),
      NestedElem,
      ElemNode(None, <<TextNode(<<"f">>)>>),
      CommentNode(<<"g">>) }

Markups == SeqsUpTo(MarkupNodes, MaxNodes)

NoComment(nodes) == \A i \in 1..Len(nodes) : nodes[i].kind # "comment"

InitText ==
    /\ InitBot
    /\ call \in {Call("get_text_from_irregular_string", m) : m \in Markups}

CallText ==
    /\ call.fn = "get_text_from_irregular_string"
    /\ ~call.done
    /\ call' = [call EXCEPT !.ret = get_text_from_irregular_string(call.arg),
                            !.done = TRUE]
    /\ UNCHANGED botVars

SpecText == InitText /\ [][CallText]_vars

RECURSIVE Annotated(_)
\* the text the normalizer is to produce: every plain-text run verbatim and
\* every top-level element as (*content*), in document order
Annotated(nodes) ==
    IF nodes = <<>> THEN <<>>
    ELSE (IF Head(nodes).kind = "text"
          THEN Head(nodes).text
          ELSE <<"(", "*">> \o FlatText(Head(nodes).children) \o <<"*", ")">>)
         \o Annotated(Tail(nodes))

\* C5 as stated: for markup of plain-text runs and tagged elements the result
\* is the concatenation, in document order, of every text run verbatim and of
\* every top-level element's flattened text as (*content*); no text run is
\* lost, a run that follows an element included.
C5_NoTextRunLost ==
    (Done("get_text_from_irregular_string") /\ NoComment(call.arg))
        => call.ret = Return(Annotated(call.arg))

InitMeta ==
    /\ InitBot
    /\ call \in {Call("get_word_metadata", m) : m \in Markups}

CallMeta ==
    /\ call.fn = "get_word_metadata"
    /\ ~call.done
    /\ call' = [call EXCEPT !.ret = get_word_metadata(call.arg), !.done = TRUE]
    /\ UNCHANGED botVars

SpecMeta == InitMeta /\ [][CallMeta]_vars

\* the fragments of the headword block after the first
Remaining(nodes) ==
    SubSeq(fragments_fromstring(nodes), 2, Len(fragments_fromstring(nodes)))

\* C6: get_word_metadata drops the first fragment of the parsed block; its
\* keys are exactly the class labels of the remaining tagged fragments, and
\* the value of a label is the flattened text of the first remaining fragment
\* that carries it, whatever later fragments with the label hold.
C6_FirstWriteWins ==
    (Done("get_word_metadata") /\ NoComment(call.arg)) =>
        /\ DOMAIN call.ret = {Remaining(call.arg)[i].class : i \in 1..Len(Remaining(call.arg))}
        /\ \A i \in 1..Len(Remaining(call.arg)) :
             (\A j \in 1..(i - 1) : Remaining(call.arg)[j].class # Remaining(call.arg)[i].class)
                => call.ret[Remaining(call.arg)[i].class]
                     = FlatText(Remaining(call.arg)[i].children)

\* C6 witness: after the leading text two fragments carry the label x with
\* different text, and the metadata holds the text of the first.
C6_Witness ==
    /\ Done("get_word_metadata")
    /\ call.arg = <<TextNode(<<"a">>), ElemNode(Some("x"), <<TextNode(<<"b">>)>>), NestedElem>>
    /\ call.ret[Some("x")] = <<"b">>

----------------------------------------------------------------------------
(* Calls of prepare_comment, on word results and on answers of PONS *)

Genders == {<<"n", "t">>, <<"m">>, <<"f">>, <<"n">>, <<"x">>, <<"m", "f">>}

WordTypes == {NOUN, <<"v", "e", "r", "b">>, <<"a", "d", "j">>, <<"U+00FC", "b", "U+00DF">>}

\* the dicts with the given optional entries, over the fixed word a.b
Optional(key, values) == {EmptyDict} \cup {key :> v : v \in values}

WordResults ==
    { ("word" :> <<"a", "b">>) @@ g @@ t @@ m @@ tr :
        g \in Optional("gender", Genders),
        t \in Optional("word_type", WordTypes),
        m \in {"metadata" :> EmptyDict,
               "metadata" :> (Some("phonetics") :> <<"[", "a", "]">>)},
        tr \in Optional("translation", {<<"h">>}) }

WordClasses == {None} \cup {Some(t) : t \in WordTypes}

\* headword blocks with and without a genus
GenusBlocks ==
    {<<TextNode(<<"a", "b">>)>>} \cup {NounFull(g) : g \in Genders \cup {<<>>}}

\* headwords with the separator of line 120 and with the middle dot
Headwords == {<<"a">> \o SYLLABLE_SEPARATOR \o <<"b">>, <<"a", "U+00B7", "b">>}

Definitions ==
    { Definition(headword, wc, full, PlainArabs) :
        headword \in Headwords, wc \in WordClasses, full \in GenusBlocks }

InitComment ==
    /\ InitBot
    /\ call \in {Call("prepare_comment", w) : w \in WordResults}
                \cup {Call("search_word", Response(200, Entry(d))) : d \in Definitions}

CallPrepareComment ==
    /\ call.fn = "prepare_comment"
    /\ ~call.done
    /\ call' = [call EXCEPT !.ret = prepare_comment(call.arg), !.done = TRUE]
    /\ UNCHANGED botVars

\* search_word and then prepare_comment, as scan_posts calls them
CallSearchWord ==
    /\ call.fn = "search_word"
    /\ ~call.done
    /\ call' = [call EXCEPT !.ret = PrepareFrom(Return(<<>>), search_word(call.arg)),
                            !.done = TRUE]
    /\ UNCHANGED botVars

NextComment == CallPrepareComment \/ CallSearchWord

SpecComment == InitComment /\ [][NextComment]_vars

\* the article the table of the formatter gives for a gender
ArticleFor(gender) ==
    CASE gender = <<"n", "t">> -> <<"d", "a", "s", " ">>
      [] gender = <<"m">> -> <<"d", "e", "r", " ">>
      [] gender = <<"f">> -> <<"d", "i", "e", " ">>
      [] OTHER -> <<>>

StartsWith(s, prefix) ==
    Len(s) >= Len(prefix) /\ SubSeq(s, 1, Len(prefix)) = prefix

GenderOf(word_result) ==
    IF "gender" \in DOMAIN word_result THEN word_result["gender"] ELSE <<>>

\* the wordclass of the definition an answer of PONS carries
WordClassOf(response) == response.json[1].hits[1].roms[1].wordclass

\* C7: prepare_comment opens the comment with the bold word, preceded by das,
\* der or die and a space for the gender nt, m or f and by nothing for an
\* absent or any other gender; such a gender raises nothing (only a missing
\* word class or translation does); and the comment of a word that search_word
\* found not to be a noun has no gender and opens with the bare bold word.
C7_ArticleFromGender ==
    /\ Done("prepare_comment") =>
         /\ call.ret.raised <=>
              ("word_type" \notin DOMAIN call.arg \/ "translation" \notin DOMAIN call.arg)
         /\ ~call.ret.raised =>
              StartsWith(call.ret.value,
                         <<"*", "*">> \o ArticleFor(GenderOf(call.arg)) \o call.arg["word"]
                         \o <<"*", "*", " ">>)
    /\ (Done("search_word") /\ WordClassOf(call.arg) # Some(NOUN) /\ ~call.ret.raised) =>
         /\ "gender" \notin DOMAIN call.ret.value.word_details
         /\ StartsWith(call.ret.value.definition,
                       <<"*", "*">> \o call.ret.value.word_details["word"] \o <<"*", "*", " ">>)

\* C7 witness: the answer for a verb whose headword block names the genus f
\* has been formatted, and the comment opens with the bare bold word.
C7_Witness ==
       /\ Done("search_word")
       /\ WordClassOf(call.arg) = Some(<<"v", "e", "r", "b">>)
       /\ call.arg.json[1].hits[1].roms[1].headword_full = NounFull(<<"f">>)
       /\ ~call.ret.raised
       /\ StartsWith(call.ret.value.definition, <<"*", "*", "a", "b", "*", "*">>)

----------------------------------------------------------------------------
(* Calls of _get_word_to_search on titles *)

MaxTitle == 4

TitleChars == {"a", "b", " ", "\n", "\r", "U+00A0"}

Titles == SeqsUpTo(TitleChars, MaxTitle)

InitTitle ==
    /\ InitBot
    /\ call \in {Call("_get_word_to_search", t) : t \in Titles}

CallTitle ==
    /\ call.fn = "_get_word_to_search"
    /\ ~call.done
    /\ call' = [call EXCEPT !.ret = _get_word_to_search(call.arg), !.done = TRUE]
    /\ UNCHANGED botVars

SpecTitle == InitTitle /\ [][CallTitle]_vars

Blank(s) == \A i \in 1..Len(s) : s[i] \in Whitespace

\* the last whitespace-delimited token of a string that is not blank: the
\* longest run without whitespace that ends at its last non-whitespace character
LastToken(s) ==
    LET hi == CHOOSE i \in 1..Len(s) :
                /\ s[i] \notin Whitespace
                /\ \A k \in (i + 1)..Len(s) : s[k] \in Whitespace
        lo == CHOOSE j \in 1..hi :
                /\ \A k \in j..hi : s[k] \notin Whitespace
                /\ (j = 1 \/ s[j - 1] \in Whitespace)
    IN  SubSeq(s, lo, hi)

\* C8 as stated: for every title the function returns its last
\* whitespace-delimited token, a string without whitespace.
C8_EveryTitle ==
    Done("_get_word_to_search") =>
        /\ ~call.ret.raised
        /\ \A i \in 1..Len(call.ret.value) : call.ret.value[i] \notin Whitespace

\* C8: for every title with a character that is not whitespace the function
\* returns the last whitespace-delimited token: it holds no whitespace and is
\* the same with whitespace added before or after the title; for a title
\* without such a character the function raises IndexError.
C8_LastToken ==
    Done("_get_word_to_search") =>
        IF Blank(call.arg)
        THEN call.ret = Raise("IndexError", None)
        ELSE /\ call.ret = Return(LastToken(call.arg))
             /\ call.ret.value # <<>>
             /\ \A i \in 1..Len(call.ret.value) : call.ret.value[i] \notin Whitespace
             /\ \A w \in Whitespace :
                  /\ _get_word_to_search(<<w>> \o call.arg) = call.ret
                  /\ _get_word_to_search(call.arg \o <<w>>) = call.ret

\* C8 witness: a title of two tokens, a no-break space between them and a
\* carriage return after the last.
C8_Witness ==
    /\ Done("_get_word_to_search")
    /\ call.arg = <<"a", "U+00A0", "b", "\r">>
    /\ call.ret = Return(<<"b">>)

====
